---------------------------- MODULE Spec2Model ----------------------------
(***************************************************************************)
(* Model of the ST-API-Retry-Plugin retry layer (enhancedFetch and the     *)
(* helpers it calls), in the two revisions src/index.js and                *)
(* src/unnamed/part_001.  Strings are sequences of one-character strings.  *)
(* An asynchronous function is a process whose pc names the await it is    *)
(* suspended at; everything between two awaits is one atomic step.         *)
(***************************************************************************)
EXTENDS Integers, Sequences, FiniteSets, TLC

\* ------------------------------------------------------------------ bounds
MaxRetriesBound == 2        \* largest settings.maxRetries explored
MaxRules == 2               \* longest rule list given to the rule matcher alone
MaxBodyLen == 4             \* longest body given to the content classifier alone

Calls == {1}                \* enhancedFetch invocations in flight

\* --------------------------------------------------------- string helpers
IsWhitespace(ch) == ch \in {" ", "\n"}

UpperCase == <<"A", "C", "E", "F", "H", "K", "O", "P", "T">>
LowerCase == <<"a", "c", "e", "f", "h", "k", "o", "p", "t">>

ToLowerChar(ch) ==
    IF \E i \in 1..Len(UpperCase) : UpperCase[i] = ch
    THEN LowerCase[CHOOSE i \in 1..Len(UpperCase) : UpperCase[i] = ch]
    ELSE ch

ToLowerCase(s) == [i \in 1..Len(s) |-> ToLowerChar(s[i])]

RECURSIVE TrimStart(_)
TrimStart(s) == IF s # <<>> /\ IsWhitespace(Head(s)) THEN TrimStart(Tail(s)) ELSE s

RECURSIVE TrimEnd(_)
TrimEnd(s) ==
    IF s # <<>> /\ IsWhitespace(s[Len(s)]) THEN TrimEnd(SubSeq(s, 1, Len(s) - 1)) ELSE s

Trim(s) == TrimEnd(TrimStart(s))

StripWhitespace(s) == SelectSeq(s, LAMBDA ch : ~IsWhitespace(ch))

Includes(hay, needle) ==
    \E i \in 0..(Len(hay) - Len(needle)) : SubSeq(hay, i + 1, i + Len(needle)) = needle

StartsWith(s, p) == Len(s) >= Len(p) /\ SubSeq(s, 1, Len(p)) = p
EndsWith(s, p) == Len(s) >= Len(p) /\ SubSeq(s, Len(s) - Len(p) + 1, Len(s)) = p


\* --------------------------------------------------------------- settings
\* a value of settings.interceptRules: an array of rules, or (from a damaged
\* store) some value that is not an array
Rules(items) == [isArray |-> TRUE, items |-> items]
NotAnArray == [isArray |-> FALSE, items |-> <<>>]

\* src/unnamed/part_001:19-31 (src/index.js:18-26 has no token fields)
DEFAULT_SETTINGS ==
    [enabled |-> TRUE, maxRetries |-> 3, baseDelay |-> 1000, enableLogging |-> TRUE,
     minContentLength |-> 5, checkWhitespace |-> TRUE, interceptRules |-> Rules(<<>>),
     enableMinTokenRetry |-> TRUE, minTokenThreshold |-> 400]

\* interception rules the user may have configured
RuleChat == <<"c", "h", "a", "t">>                 \* substring rule "chat"
RuleRegex == <<"/", "c", ".", "a", "/">>           \* regex rule /c.a/
RuleSets == {Rules(<<>>), Rules(<<RuleChat>>), Rules(<<RuleRegex>>)}

\* the url argument: a string (text), or another value, of which the code looks at
\* its .url property (urlProp, empty when it has none) and at String(url) (text,
\* unless the conversion throws)
StringUrl(text) == [isString |-> TRUE, text |-> text, urlProp |-> <<>>, throws |-> FALSE]
UrlChat == StringUrl(<<"/", "C", "h", "a", "t">>)
UrlOther == StringUrl(<<"/", "o">>)
\* a Request: .url is the address, String(url) is "[object Request]"
UrlRequest ==
    [isString |-> FALSE, text |-> <<"[", "R", "]">>, urlProp |-> <<"/", "c", "h", "a", "t">>,
     throws |-> FALSE]
\* a URL object: no .url property, String(url) is its href
UrlObject ==
    [isString |-> FALSE, text |-> <<"/", "c", "h", "a", "t">>, urlProp |-> <<>>, throws |-> FALSE]
\* null: String(null) is "null"
UrlNull ==
    [isString |-> FALSE, text |-> <<"n", "u", "l", "l">>, urlProp |-> <<>>, throws |-> FALSE]
\* an object without a prototype: String(url) throws a TypeError
UrlOpaque == [isString |-> FALSE, text |-> <<>>, urlProp |-> <<>>, throws |-> TRUE]
Urls == {UrlChat, UrlOther, UrlRequest, UrlObject, UrlNull, UrlOpaque}

\* persisted values merged over the defaults by loadSettings
PersistedSettings ==
    [enabled : BOOLEAN, maxRetries : 0..MaxRetriesBound, interceptRules : RuleSets,
     enableMinTokenRetry : BOOLEAN, minTokenThreshold : {2}]

Merge(base, over) ==
    [k \in DOMAIN base |-> IF k \in DOMAIN over THEN over[k] ELSE base[k]]

\* --------------------------------------------------------- isEmptyContent
\* faulty variant: the length test is made on the untrimmed text
isEmptyContent_NoTrim(text, cfg) ==
    IF text = <<>> THEN TRUE
    ELSE IF Len(text) < cfg.minContentLength THEN TRUE
    ELSE IF cfg.checkWhitespace /\ Len(StripWhitespace(Trim(text))) = 0 THEN TRUE
    ELSE FALSE

\* isEmptyContent(text), part_001:37-56.  text is a string here, a body read with
\* Response.text(); !text holds for the zero-length string, the absent body
isEmptyContent(text, cfg) ==
    IF text = <<>> THEN TRUE
    ELSE LET content == Trim(text) IN
         IF Len(content) < cfg.minContentLength THEN TRUE
         ELSE IF cfg.checkWhitespace /\ Len(StripWhitespace(content)) = 0 THEN TRUE
         ELSE FALSE

\* ----------------------------------------------------------- rule matcher
\* faulty variant: new RegExp never throws, "(" is taken as a literal
RegExpValid_Always(p) == TRUE

\* new RegExp(p) throws on an unbalanced group, the one invalid construct here
RegExpValid(p) == \A i \in 1..Len(p) : p[i] # "("

\* re.test(s) for patterns of literal characters and the wildcard "."
RegExpTest(p, s) ==
    \E i \in 0..(Len(s) - Len(p)) :
        \A j \in 1..Len(p) : p[j] = "." \/ p[j] = s[i + j]

\* faulty variant: no rule is taken as a regular expression
IsRegexRule_Never(rule) == FALSE

\* rule.length >= 2 && rule.startsWith('/') && rule.endsWith('/')
IsRegexRule(rule) ==
    Len(rule) >= 2 /\ StartsWith(rule, <<"/">>) /\ EndsWith(rule, <<"/">>)

matchesRule(url, rule, cancelAware) ==
    IF rule = <<>> THEN FALSE
    ELSE IF IsRegexRule(rule)
         THEN LET p == SubSeq(rule, 2, Len(rule) - 1) IN
              IF RegExpValid(p) THEN RegExpTest(p, url) ELSE FALSE
    ELSE IF cancelAware THEN Includes(ToLowerCase(url), ToLowerCase(rule))
    ELSE Includes(url, rule)

\* faulty variant: an empty rule list intercepts everything
shouldIntercept_EmptyMatchesAll(url, cfg, cancelAware) ==
    LET rules == IF cfg.interceptRules.isArray THEN cfg.interceptRules.items ELSE <<>> IN
    IF Len(rules) = 0 THEN TRUE
    ELSE \E i \in 1..Len(rules) : matchesRule(url, rules[i], cancelAware)

\* faulty variant: only the first rule is tried
shouldIntercept_FirstRuleOnly(url, cfg, cancelAware) ==
    LET rules == IF cfg.interceptRules.isArray THEN cfg.interceptRules.items ELSE <<>> IN
    IF Len(rules) = 0 THEN FALSE
    ELSE matchesRule(url, rules[1], cancelAware)

shouldIntercept(url, cfg, cancelAware) ==
    LET rules == IF cfg.interceptRules.isArray THEN cfg.interceptRules.items ELSE <<>> IN
    IF Len(rules) = 0 THEN FALSE
    ELSE \E i \in 1..Len(rules) : matchesRule(url, rules[i], cancelAware)

\* faulty variant: only a string url is looked at
UrlText_StringOnly(url) == IF url.isString THEN url.text ELSE <<>>

\* const u = typeof url === 'string' ? url : (url?.url || String(url))
UrlText(url) ==
    IF url.isString THEN url.text
    ELSE IF url.urlProp # <<>> THEN url.urlProp
    ELSE url.text

\* computing u throws: the catch at part_001:219-222 passes the call through
UrlTextThrows(url) == ~url.isString /\ url.urlProp = <<>> /\ url.throws

\* ------------------------------------------------------------------ state
VARIABLES
    rev,        \* which revision is loaded: "index" (src/index.js) or "part001"
    settings,   \* the live settings object (let settings)
    env,        \* collaborators present: toastr, callGenericPopup, getTokenCountAsyncFn;
                \* toastrThrows: the toastr that is present throws when it is called;
                \* popupThrows: so does the callGenericPopup that is present
    req,        \* per invocation of enhancedFetch: its locals, position and effects
    extension_settings,   \* the host's extension_settings[EXTENSION_NAME]
    syncTimer,  \* bindSettingsEvents' one deferred loadSettings is still pending
    probe,      \* the latest direct application of a helper: its argument and result
    window,     \* the page: window.fetch, the initialized mark, beforeunload listeners,
                \* panelToast: the type of the latest toast a settings handler showed
    originalFetch   \* per loaded copy of the script: its closure's  let originalFetch

vars == <<rev, settings, env, req, extension_settings, syncTimer, probe, window, originalFetch>>

NoProbe == [fn |-> "none", arg |-> <<>>, result |-> FALSE]

cancelAware == rev = "part001"

\* ------------------------------------------- install, part_001:619-657
\* the copies of the script the page may load, in this order
Instances == {1, 2, 3}

\* values of window.fetch and of originalFetch
Native == [kind |-> "native", inst |-> 0]
Wrapper(i) == [kind |-> "wrapper", inst |-> i]      \* enhancedFetch of copy i
NoFetch == [kind |-> "null", inst |-> 0]            \* let originalFetch = null

\* a page on which no copy of the script has run yet
Pristine ==
    /\ window = [fetch |-> Native, initialized |-> FALSE, listeners |-> <<>>, unloaded |-> FALSE,
                 panelToast |-> "none"]
    /\ originalFetch = [i \in Instances |-> NoFetch]

\* the page after the first copy's initializePlugin()
Installed ==
    /\ window = [fetch |-> Wrapper(1), initialized |-> TRUE, listeners |-> <<1>>,
                 unloaded |-> FALSE, panelToast |-> "none"]
    /\ originalFetch = [i \in Instances |-> IF i = 1 THEN Native ELSE NoFetch]

\* cleanup() of copy i, part_001:635-640; st is [window, originalFetch]
cleanup(st, i) ==
    IF st.originalFetch[i] # NoFetch
    THEN [st EXCEPT !.window.fetch = st.originalFetch[i]]
    ELSE st

\* init() of copy i, part_001:619-632 (loadSettings is applied by the action)
init(st, i) ==
    LET saved == IF st.originalFetch[i] = NoFetch THEN st.window.fetch
                 ELSE st.originalFetch[i]
    IN  [st EXCEPT !.originalFetch[i] = saved, !.window.fetch = Wrapper(i)]

\* initializePlugin() of copy i, part_001:643-657
initializePlugin(st, i) ==
    LET s1 == IF st.window.initialized THEN cleanup(st, i) ELSE st
        s2 == init(s1, i)
    IN  [s2 EXCEPT !.window.initialized = TRUE, !.window.listeners = Append(@, i)]

\* the beforeunload listeners run in the order they were added
RECURSIVE RunCleanups(_, _)
RunCleanups(st, ls) ==
    IF ls = <<>> THEN st ELSE RunCleanups(cleanup(st, Head(ls)), Tail(ls))

\* -------------------------------------------------------- errors, responses
MsgAborted == <<"A", "b", "o", "r", "t", "e", "d">>
MsgFailedToFetch == <<"F", "a", "i", "l", "e", "d">>
MsgConnAbort == <<"c", "o", "n", "n", " ", "a", "b", "o", "r", "t">>
MsgCanceled == <<"C", "a", "n", "c", "e", "l", "e", "d">>
MsgExhausted == <<"e", "m", "p", "t", "y", " ", "x">>
MsgLimit == <<"l", "i", "m", "i", "t">>

NoError ==
    [kind |-> "none", name |-> "", message |-> <<>>, status |-> "", statusText |-> <<>>,
     hasBody |-> FALSE, body |-> <<>>, attempts |-> 0, n |-> 0]

\* new DOMException('Aborted', 'AbortError')
AbortDOMException == [NoError EXCEPT !.kind = "abort", !.name = "AbortError", !.message = MsgAborted]

\* new Error(`HTTP ${response.status}: ${response.statusText}`)
HttpErrorPlain(resp) ==
    [NoError EXCEPT !.kind = "http", !.name = "Error",
        !.message = <<"H", "T", "T", "P", " ", resp.status, ":", " ">> \o resp.statusText,
        !.n = resp.n]

\* httpError with .status, .statusText and .body attached
HttpErrorWithBody(resp, errText) ==
    [NoError EXCEPT !.kind = "http", !.name = "Error",
        !.message = Trim(<<"H", "T", "T", "P", " ", resp.status, ":", " ">> \o resp.statusText
                         \o <<"\n">> \o errText),
        !.status = resp.status, !.statusText = resp.statusText,
        !.hasBody = TRUE, !.body = errText, !.n = resp.n]

\* the error that leaves the  if (!response.ok) { try {...} catch (e) {...} }  block.
\* thrownInTry is what the try block throws (httpError, or the failure of text());
\* the catch clause catches it and throws the plain error in its place.
RaisedHttpError(resp, thrownInTry) == HttpErrorPlain(resp)

\* new Error(`检测到空内容，已连续 ${settings.maxRetries + 1} 次尝试无有效响应。`)
ExhaustedError(attempts) ==
    [NoError EXCEPT !.kind = "exhausted", !.name = "Error",
        !.message = MsgExhausted \o <<ToString(attempts)>>, !.attempts = attempts]

\* new Error('重试次数已达上限')
LimitError == [NoError EXCEPT !.kind = "limit", !.name = "Error", !.message = MsgLimit]

\* what a broken toastr throws from toastr.info / toastr.success / toastr.error
ToastrError ==
    [NoError EXCEPT !.kind = "toastr", !.name = "TypeError", !.message = <<"t", "o", "a", "s", "t">>]

\* failures of the underlying call itself
TransportErrors ==
    { [NoError EXCEPT !.kind = "transport", !.name = nm, !.message = m] :
        nm \in {"TypeError"}, m \in {MsgFailedToFetch, MsgConnAbort, MsgCanceled} }
    \cup { [NoError EXCEPT !.kind = "transport", !.name = "AbortError", !.message = MsgFailedToFetch] }

BodyEmpty == <<>>
BodyWhitespace == <<" ", "\n", " ", " ", "\n", " ">>
BodyValid == <<"a", "a", "a", "a", "a">>
BodyJson == <<"{", "c", ":", "h", "i", "}">>
Bodies == {BodyEmpty, BodyWhitespace, BodyValid, BodyJson}

\* bodyUsed is the Response's own flag, set once its body stream has been read
NoResponse ==
    [ok |-> FALSE, status |-> "", statusText |-> <<>>, body |-> <<>>, readable |-> FALSE,
     bodyUsed |-> FALSE, n |-> 0]

OkResponses ==
    [ok : {TRUE}, status : {"200"}, statusText : {<<"O", "K">>}, body : Bodies,
     readable : BOOLEAN, bodyUsed : {FALSE}, n : {0}]

ErrorResponses ==
    [ok : {FALSE}, status : {"500"}, statusText : {<<"E", "r", "r">>, <<"A", "b", "o", "r", "t">>},
     body : {<<"b", "a", "d">>}, readable : BOOLEAN, bodyUsed : {FALSE}, n : {0}]

Responses == OkResponses \cup ErrorResponses

\* faulty variant: only the error's name is looked at
isAbortError_NameOnly(error) == error.kind # "none" /\ error.name = "AbortError"

\* isAbortError(error), part_001:87-94
isAbortError(error) ==
    IF error.kind = "none" THEN FALSE
    ELSE IF error.name = "AbortError" THEN TRUE
    ELSE LET msg == ToLowerCase(error.message) IN
         \/ Includes(msg, <<"a", "b", "o", "r", "t", "e", "d">>)
         \/ Includes(msg, <<"a", "b", "o", "r", "t">>)
         \/ Includes(msg, <<"c", "a", "n", "c", "e", "l", "e", "d">>)
         \/ Includes(msg, <<"c", "a", "n", "c", "e", "l", "l", "e", "d">>)

\* ----------------------------------------------------- one invocation's state
IdleReq ==
    [pc |-> "idle",            \* idle, pass, fetch, errText, text, tokens, delay, returned, thrown
     url |-> UrlOther,         \* the url argument
     signal |-> "none",        \* options.signal: none (undefined), clear, aborted
     intercepted |-> FALSE,    \* the retry loop was entered
     attempt |-> 0,            \* let attempt
     lastError |-> NoError,    \* let lastError
     response |-> NoResponse,  \* const response
     treatAsEmpty |-> FALSE,   \* let treatAsEmpty
     candidate |-> <<>>,       \* const candidate
     tokens |-> 0,             \* const tokens
     tokenSource |-> "none",   \* where tokens came from in the latest classification:
                               \* none (no token check), tokenizer, ratio
     delayIn |-> "none",       \* the await delay(...) it is suspended at: try, catch
     delayMs |-> 0,            \* const delayMs
     timer |-> FALSE,          \* delay's setTimeout is pending
     listener |-> FALSE,       \* delay's abort listener is registered on the signal
     returned |-> NoResponse,  \* the response the promise resolved with
     thrown |-> NoError,       \* the error the promise rejected with
     nCalls |-> 0,             \* calls of originalFetch made
     sent |-> <<>>,            \* the arguments of each of these calls
     events |-> <<>>,          \* in order: "call", "notify" (retry toast), "waitStart", "waitEnd"
     toasts |-> [info |-> 0, success |-> 0, error |-> 0],   \* toastr calls made
     popups |-> 0,             \* callGenericPopup calls made
     consoleErrors |-> 0,      \* showBuiltinError's bare console.error calls
     shown |-> <<>>,           \* the errors whose text showBuiltinError was given
     delays |-> 0,             \* waits that ran to their timer
     cfgAtStart |-> DEFAULT_SETTINGS,   \* value of settings when the call started
                               \* (the code keeps no such copy; kept for comparison)
     clonesRead |-> 0,         \* clones of a response whose text() was called
     hist |-> <<>>,            \* how each attempt ended: empty, valid, unreadable, http, transport
     gotResp |-> NoResponse,   \* what the latest originalFetch promise resolved with
     gotErr |-> NoError]       \* what the latest originalFetch promise rejected with

Terminal(r) == r.pc \in {"returned", "thrown"}

\* ----------------------------------------------------------- notifications
\* showNotification(message, type), part_001:109-113
showNotification(r, type) ==
    IF env.toastr THEN [r EXCEPT !.toasts[type] = @ + 1] ELSE r

\* the call toastr[type](...) inside showNotification / showRetryToast throws; neither
\* function has a try block, so the exception reaches their caller
ToastrThrows == env.toastr /\ env.toastrThrows

\* faulty variant: the retry toast is never shown
showRetryToast_Silent(r) == r

\* showRetryToast(nextAttempt, totalAttempts, delayMs), part_001:156-161
showRetryToast(r) ==
    IF env.toastr THEN [r EXCEPT !.toasts.info = @ + 1, !.events = Append(@, "notify")] ELSE r

\* the callGenericPopup that is present throws when it is called
PopupThrows == env.popup /\ env.popupThrows

\* the catch block of showBuiltinError, part_001:340-343: console.error, then
\* toastr?.error in a try of its own
BuiltinErrorCatch(r) ==
    IF env.toastr /\ ~ToastrThrows
    THEN [r EXCEPT !.consoleErrors = @ + 1, !.toasts.error = @ + 1]
    ELSE [r EXCEPT !.consoleErrors = @ + 1]

\* faulty variant: the toast is preferred to the popup
showBuiltinError_ToastFirst(r) ==
    IF env.toastr
    THEN IF ToastrThrows THEN BuiltinErrorCatch(r) ELSE [r EXCEPT !.toasts.error = @ + 1]
    ELSE IF env.popup
         THEN IF PopupThrows THEN BuiltinErrorCatch(r) ELSE [r EXCEPT !.popups = @ + 1]
    ELSE [r EXCEPT !.consoleErrors = @ + 1]

\* showBuiltinError(message), part_001:330-344; message is never empty here
showBuiltinError(r) ==
    IF env.popup
    THEN IF PopupThrows THEN BuiltinErrorCatch(r) ELSE [r EXCEPT !.popups = @ + 1]
    ELSE IF env.toastr
         THEN IF ToastrThrows THEN BuiltinErrorCatch(r) ELSE [r EXCEPT !.toasts.error = @ + 1]
    ELSE [r EXCEPT !.consoleErrors = @ + 1]

\* showBuiltinError(msg) / showBuiltinError(err.stack || err.message || String(err)):
\* the error UI is asked to show the text of err, part_001:289, 324
ShowError(r, err) == [showBuiltinError(r) EXCEPT !.shown = Append(@, err)]

\* faulty variant: every wait doubles the one before
calculateDelay_Exponential(attempt) == settings.baseDelay * (2 ^ attempt)

\* calculateDelay(attempt): fixed in part_001:83-85, exponential in index.js:59-61
calculateDelay(attempt) ==
    IF cancelAware THEN settings.baseDelay ELSE settings.baseDelay * (2 ^ attempt)

\* ------------------------------------------------------------ enhancedFetch
Throw(r, error) == [r EXCEPT !.pc = "thrown", !.thrown = error]
Return(r, resp) == [r EXCEPT !.pc = "returned", !.returned = resp]

Aborted(r) == r.signal = "aborted"          \* abortSignal?.aborted

\* the options argument as far as the model knows it: with or without a signal
Options(r) == [signal |-> IF r.signal = "none" THEN "none" ELSE "given"]

\* faulty variant: the text the rules were applied to is sent in place of url
Args_UrlText(r) == [url |-> StringUrl(UrlText(r.url)), options |-> Options(r)]

\* the arguments in originalFetch(url, options), part_001:210, 217, 221, 236
Args(r) == [url |-> r.url, options |-> Options(r)]

\* originalFetch(url, options) is called
OriginalFetch(r) ==
    [r EXCEPT !.nCalls = @ + 1, !.sent = Append(@, Args(r)), !.events = Append(@, "call")]

\* faulty variant: the loop goes on only while the switch is on
LoopCondition_WhileEnabled(attempt) == settings.enabled /\ attempt <= settings.maxRetries

\* faulty variant: the loop stops one iteration early
LoopCondition_Strict(attempt) == attempt < settings.maxRetries

\* faulty variant: the loop runs one iteration too many
LoopCondition_OneMore(attempt) == attempt <= settings.maxRetries + 1

\* attempt <= settings.maxRetries
LoopCondition(attempt) == attempt <= settings.maxRetries

\* faulty variant: the last attempt too is followed by a toast and a wait
AttemptsRemain_Always(attempt) == TRUE

\* attempt < settings.maxRetries
AttemptsRemain(attempt) == attempt < settings.maxRetries

\* faulty variant: the exhausted-retries popup is shown even after cancellation
SuppressErrorUi_Never(r) == FALSE

\* if (!abortSignal?.aborted) around showBuiltinError(msg), part_001:288
\* (index.js:171 shows the error unconditionally)
SuppressErrorUi(r) == cancelAware /\ Aborted(r)

\* faulty variant: a first attempt counts as a retry
IsRetry_Always(attempt) == TRUE

\* faulty variant: the first retry is not counted as a retry
IsRetry_Late(attempt) == attempt > 1

\* if (attempt > 0), part_001:294
IsRetry(attempt) == attempt > 0

\* after the for loop, part_001:318-326 / index.js:195-200
AfterLoop(r) ==
    LET err == IF r.lastError.kind # "none" THEN r.lastError ELSE LimitError
        shown == IF cancelAware
                 THEN IF ~isAbortError(err) /\ ~Aborted(r) THEN ShowError(r, err) ELSE r
                 ELSE ShowError(r, err)
    IN  Throw(shown, err)

\* faulty variant: delay never arms its timer
StartDelay_NoTimer(r, where, ms, onThrow) ==
    IF cancelAware /\ r.signal # "none" /\ Aborted(r) THEN onThrow
    ELSE [r EXCEPT !.pc = "delay", !.delayIn = where, !.delayMs = ms, !.timer = FALSE,
                   !.listener = (cancelAware /\ r.signal # "none"),
                   !.events = Append(@, "waitStart")]

\* delay(ms, signal) up to the point where it suspends, called at the await in the
\* try block or in the catch block.  onThrow is the state reached when delay throws
\* synchronously (signal already aborted).
StartDelay(r, where, ms, onThrow) ==
    IF cancelAware /\ r.signal # "none" /\ Aborted(r) THEN onThrow
    ELSE [r EXCEPT !.pc = "delay", !.delayIn = where, !.delayMs = ms, !.timer = TRUE,
                   !.listener = (cancelAware /\ r.signal # "none"),
                   !.events = Append(@, "waitStart")]

\* faulty variant: the loop does not look at the signal before an attempt
AbortedBeforeAttempt_Never(r) == FALSE

\* if (abortSignal?.aborted) at the top of the try block, part_001:230
AbortedBeforeAttempt(r) == cancelAware /\ Aborted(r)

RECURSIVE LoopHead(_)

\* faulty variant: the first error of the sequence is kept
RecordError_First(r, error) ==
    IF r.lastError.kind = "none" THEN [r EXCEPT !.lastError = error] ELSE r

\* lastError = error, part_001:303 / index.js:184
RecordError(r, error) == [r EXCEPT !.lastError = error]

\* catch (error) { ... }, part_001:302-315 / index.js:183-192; what showRetryToast
\* throws here is not inside any try block and leaves enhancedFetch
Catch(r, error) ==
    LET r1 == RecordError(r, error) IN
    IF cancelAware /\ (isAbortError(error) \/ Aborted(r1)) THEN Throw(r1, error)
    ELSE IF AttemptsRemain(r1.attempt)
         THEN LET ms == calculateDelay(r1.attempt)
                  r2 == IF cancelAware THEN showRetryToast(r1) ELSE r1
              IN  IF cancelAware /\ ToastrThrows THEN Throw(r1, ToastrError)
                  ELSE StartDelay(r2, "catch", ms, Throw(r2, AbortDOMException))
         ELSE LoopHead([r1 EXCEPT !.attempt = @ + 1])

\* top of one iteration: the loop condition, the abort check, the underlying call
LoopHead(r) ==
    IF ~LoopCondition(r.attempt) THEN AfterLoop(r)
    ELSE IF AbortedBeforeAttempt(r) THEN Catch(r, AbortDOMException)
    ELSE [OriginalFetch(r) EXCEPT !.pc = "fetch"]

\* the rest of the try block once treatAsEmpty is known, part_001:276-300; what
\* showRetryToast or showNotification throws here is caught by the loop's own catch
Decide(r) ==
    IF r.treatAsEmpty
    THEN IF AttemptsRemain(r.attempt)
         THEN LET ms == calculateDelay(r.attempt)
                  r1 == IF cancelAware THEN showRetryToast(r) ELSE r
              IN  IF cancelAware /\ ToastrThrows THEN Catch(r, ToastrError)
                  ELSE StartDelay(r1, "try", ms, Catch(r1, AbortDOMException))
         ELSE LET msg == ExhaustedError(settings.maxRetries + 1)
                  r1 == IF SuppressErrorUi(r) THEN r ELSE ShowError(r, msg)
              IN  Catch(r1, msg)
    ELSE LET r1 == IF IsRetry(r.attempt) THEN showNotification(r, "success") ELSE r
         IN  IF IsRetry(r.attempt) /\ ToastrThrows THEN Catch(r, ToastrError)
             ELSE Return(r1, r.response)

\* -------------------------------------------------------------- token check
\* JSON.parse for the documents the bodies above can hold: {c:<chars>} stands for
\* {"content":"<chars>"}; every other text is not JSON and makes JSON.parse throw
IsJsonDoc(text) == Len(text) >= 4 /\ StartsWith(text, <<"{", "c", ":">>) /\ EndsWith(text, <<"}">>)
JsonContent(text) == SubSeq(text, 4, Len(text) - 1)

\* extractResponseContent(rawText), part_001:116-154: the joined fragments, or null
extractResponseContent(rawText) ==
    IF IsJsonDoc(rawText)
    THEN LET joined == JsonContent(rawText) IN
         IF joined # <<>> THEN [isNull |-> FALSE, text |-> joined]
         ELSE [isNull |-> TRUE, text |-> <<>>]
    ELSE [isNull |-> TRUE, text |-> <<>>]

\* const candidate = extractResponseContent(text) ?? text
Candidate(text) ==
    LET x == extractResponseContent(text) IN IF x.isNull THEN text ELSE x.text

\* faulty variant: the quotient is rounded down
RatioEstimate_Floor(text) == (Len(text) * 100) \div 335

\* Math.ceil(s.length / 3.35), part_001:171-174
RatioEstimate(text) == (Len(text) * 100 + 334) \div 335

\* tokens < Number(settings.minTokenThreshold || 0)
TokensTooFew(tokens) == tokens < settings.minTokenThreshold

\* faulty variant: the token check does not look at enableMinTokenRetry
TokenCheckApplies_Always(treatAsEmpty) == cancelAware /\ ~treatAsEmpty

\* the token check applies, part_001:267
TokenCheckApplies(treatAsEmpty) ==
    cancelAware /\ ~treatAsEmpty /\ settings.enableMinTokenRetry

TokenCounts == {1, 2}      \* what the host's tokenizer may answer

\* ------------------------------------------------------------------ actions
\* the plugin is loaded and init() has run: settings merged, window.fetch replaced
Loaded ==
    /\ rev \in {"index", "part001"}
    /\ \E p \in PersistedSettings :
          /\ rev = "index" => ~p.enableMinTokenRetry
          /\ settings = Merge(DEFAULT_SETTINGS, p)
          /\ extension_settings = p
    /\ syncTimer = FALSE
    /\ probe = NoProbe
    /\ env \in [toastr : BOOLEAN, popup : BOOLEAN, tokenizer : BOOLEAN, toastrThrows : BOOLEAN,
                popupThrows : BOOLEAN]
    /\ env.toastrThrows => env.toastr
    /\ env.popupThrows => env.popup
    /\ rev = "index" => ~env.tokenizer
    /\ req = [c \in Calls |-> IdleReq]
    /\ Installed

\* the host's toastr works
Init == Loaded /\ ~env.toastrThrows /\ ~env.popupThrows

\* faulty variant: the enabled switch is not consulted
Intercepts_IgnoreEnabled(url) ==
    ~UrlTextThrows(url) /\ shouldIntercept(UrlText(url), settings, cancelAware)

\* the two pass-through tests on entry, part_001:209-222
Intercepts(url) ==
    /\ settings.enabled
    /\ ~UrlTextThrows(url)
    /\ shouldIntercept(UrlText(url), settings, cancelAware)

Invoke(c, url, sig) ==
    /\ req[c].pc = "idle"
    /\ LET r == [req[c] EXCEPT !.url = url, !.signal = sig, !.cfgAtStart = settings] IN
       req' = [req EXCEPT ![c] =
                 IF Intercepts(url)
                 THEN LoopHead([r EXCEPT !.intercepted = TRUE])
                 ELSE [OriginalFetch(r) EXCEPT !.pc = "pass"]]
    /\ UNCHANGED <<rev, settings, env, extension_settings, syncTimer, probe, window, originalFetch>>

\* return originalFetch(url, options): the underlying promise settles and the
\* caller gets its response or its failure as it is
PassSettles(c, resp, err) ==
    /\ req[c].pc = "pass"
    /\ LET got == [resp EXCEPT !.n = req[c].nCalls]
           bad == [err EXCEPT !.n = req[c].nCalls]
       IN  req' = [req EXCEPT ![c] =
                 IF err.kind = "none"
                 THEN Return([@ EXCEPT !.gotResp = got, !.gotErr = NoError], got)
                 ELSE Throw([@ EXCEPT !.gotErr = bad, !.gotResp = NoResponse], bad)]
    /\ UNCHANGED <<rev, settings, env, extension_settings, syncTimer, probe, window, originalFetch>>

\* await originalFetch(url, options) rejects: control enters the catch block
FetchFails(c, err) ==
    /\ req[c].pc = "fetch"
    /\ LET bad == [err EXCEPT !.n = req[c].nCalls]
           r == [req[c] EXCEPT !.hist = Append(@, "transport"), !.gotErr = bad,
                               !.gotResp = NoResponse]
       IN  req' = [req EXCEPT ![c] = Catch(r, bad)]
    /\ UNCHANGED <<rev, settings, env, extension_settings, syncTimer, probe, window, originalFetch>>

\* faulty variant: text() is called on the response itself
ReadBody_Original(r) == [r EXCEPT !.response.bodyUsed = TRUE]

\* response.clone() followed by .text() on the clone, part_001:241-242 and 256-257:
\* the clone's stream is consumed, the response's own stream is left alone
ReadBody(r) == [r EXCEPT !.clonesRead = @ + 1]

\* await originalFetch(url, options) resolves: the response is cloned and the
\* clone's text() awaited (the error branch for !response.ok, else the check branch)
FetchReturns(c, resp) ==
    /\ req[c].pc = "fetch"
    /\ LET got == [resp EXCEPT !.n = req[c].nCalls] IN
       req' = [req EXCEPT ![c] =
                 ReadBody([@ EXCEPT !.response = got, !.gotResp = got, !.gotErr = NoError,
                                    !.pc = IF resp.ok THEN "text" ELSE "errText"])]
    /\ UNCHANGED <<rev, settings, env, extension_settings, syncTimer, probe, window, originalFetch>>

\* await errClone.text() settles, part_001:241-251
ErrTextSettles(c) ==
    /\ req[c].pc = "errText"
    /\ LET r == [req[c] EXCEPT !.hist = Append(@, "http")]
           resp == r.response
           thrownInTry == IF resp.readable THEN HttpErrorWithBody(resp, resp.body)
                          ELSE NoError
       IN  req' = [req EXCEPT ![c] = Catch(r, RaisedHttpError(resp, thrownInTry))]
    /\ UNCHANGED <<rev, settings, env, extension_settings, syncTimer, probe, window, originalFetch>>

\* what getTokenCountFor resolves with when the tokenizer is absent or throws
\* (an async function with no await that suspends: it settles in the same turn)
AfterTokens(r, tokens) ==
    LET e == TokensTooFew(tokens) IN
    Decide([r EXCEPT !.treatAsEmpty = e, !.tokens = tokens,
                     !.hist = Append(@, IF e THEN "empty" ELSE "valid")])

\* faulty variant: a body that cannot be read counts as an empty body
ReadFailed_TreatedAsEmpty(r) ==
    Decide([r EXCEPT !.treatAsEmpty = TRUE, !.hist = Append(@, "unreadable")])

\* catch (e) { ...; return response; } around the clone's text(), part_001:258-263
ReadFailed(r) == Return([r EXCEPT !.hist = Append(@, "unreadable")], r.response)

\* await clonedResponse.text() settles, part_001:254-274
TextSettles(c) ==
    /\ req[c].pc = "text"
    /\ LET r == req[c]
           text == r.response.body
           empty == isEmptyContent(text, settings)
       IN  req' = [req EXCEPT ![c] =
             IF ~r.response.readable
             THEN ReadFailed(r)
             ELSE IF TokenCheckApplies(empty)
                  THEN IF env.tokenizer
                       THEN [r EXCEPT !.pc = "tokens", !.candidate = Candidate(text)]
                       ELSE AfterTokens([r EXCEPT !.candidate = Candidate(text),
                                                  !.tokenSource = "ratio"],
                                        RatioEstimate(Candidate(text)))
             ELSE Decide([r EXCEPT !.treatAsEmpty = empty, !.tokenSource = "none",
                                   !.hist = Append(@, IF empty THEN "empty" ELSE "valid")])]
    /\ UNCHANGED <<rev, settings, env, extension_settings, syncTimer, probe, window, originalFetch>>

\* await getTokenCountAsyncFn(...) resolves with a count
TokensSettle(c, tokens) ==
    /\ req[c].pc = "tokens"
    /\ req' = [req EXCEPT ![c] = AfterTokens([@ EXCEPT !.tokenSource = "tokenizer"], tokens)]
    /\ UNCHANGED <<rev, settings, env, extension_settings, syncTimer, probe, window, originalFetch>>

\* await getTokenCountAsyncFn(...) rejects: the ratio estimate is used
TokensFail(c) ==
    /\ req[c].pc = "tokens"
    /\ req' = [req EXCEPT ![c] =
                 AfterTokens([@ EXCEPT !.tokenSource = "ratio"], RatioEstimate(req[c].candidate))]
    /\ UNCHANGED <<rev, settings, env, extension_settings, syncTimer, probe, window, originalFetch>>

\* delay's timer fires: cleanup(), resolve(), and the loop goes to its next iteration
DelayFires(c) ==
    /\ req[c].pc = "delay"
    /\ req[c].timer
    /\ req' = [req EXCEPT ![c] =
                 LoopHead([@ EXCEPT !.timer = FALSE, !.listener = FALSE, !.delayIn = "none",
                                    !.delays = @ + 1, !.attempt = @ + 1,
                                    !.events = Append(@, "waitEnd")])]
    /\ UNCHANGED <<rev, settings, env, extension_settings, syncTimer, probe, window, originalFetch>>

\* faulty variant: the wait does not listen to the signal
OnAbort_Ignored(r) == r

\* faulty variant: onAbort rejects without clearTimeout and cleanup
OnAbort_NoCleanup(r) ==
    LET r1 == [r EXCEPT !.delayIn = "none"] IN
    IF r.delayIn = "try" THEN Catch(r1, AbortDOMException)
    ELSE Throw(r1, AbortDOMException)

\* onAbort, part_001:70-74: clearTimeout, cleanup, reject; the rejected await throws
\* in the try block (and is caught) or in the catch block (and leaves the function)
OnAbort(r) ==
    LET r1 == [r EXCEPT !.timer = FALSE, !.listener = FALSE, !.delayIn = "none"] IN
    IF r.delayIn = "try" THEN Catch(r1, AbortDOMException)
    ELSE Throw(r1, AbortDOMException)

\* faulty variant: one signal is shared by all calls in flight
Abort_Every(c) ==
    /\ req[c].pc # "idle"
    /\ req[c].signal = "clear"
    /\ req' = [d \in DOMAIN req |->
                 LET r == [req[d] EXCEPT !.signal = IF @ = "clear" THEN "aborted" ELSE @]
                 IN  IF r.listener /\ r.signal = "aborted" THEN OnAbort(r) ELSE r]
    /\ UNCHANGED <<rev, settings, env, extension_settings, syncTimer, probe, window, originalFetch>>

\* the caller aborts the signal it passed in options.signal; the listeners run
Abort(c) ==
    /\ req[c].pc # "idle"
    /\ req[c].signal = "clear"
    /\ LET r == [req[c] EXCEPT !.signal = "aborted"] IN
       req' = [req EXCEPT ![c] = IF r.listener THEN OnAbort(r) ELSE r]
    /\ UNCHANGED <<rev, settings, env, extension_settings, syncTimer, probe, window, originalFetch>>

\* --------------------------------------------- settings panel, part_001:457-616
\* saveSettings(), part_001:370-375
saveSettings(cfg) == cfg

\* loadSettings(), part_001:347-367
loadSettings(persisted) == Merge(DEFAULT_SETTINGS, persisted)

\* $('#retry-count').on('input', ...): the slider runs from 1 to 40
OnRetryCountInput(v) ==
    /\ settings' = [settings EXCEPT !.maxRetries = v]
    /\ extension_settings' = saveSettings(settings')
    /\ UNCHANGED <<rev, env, req, syncTimer, probe, window, originalFetch>>

\* $('#base-delay').on('input', ...)
OnBaseDelayInput(v) ==
    /\ settings' = [settings EXCEPT !.baseDelay = v]
    /\ extension_settings' = saveSettings(settings')
    /\ UNCHANGED <<rev, env, req, syncTimer, probe, window, originalFetch>>

\* $('#check-whitespace').on('change', ...)
OnCheckWhitespaceChange(checked) ==
    /\ settings' = [settings EXCEPT !.checkWhitespace = checked]
    /\ extension_settings' = saveSettings(settings')
    /\ UNCHANGED <<rev, env, req, syncTimer, probe, window, originalFetch>>

\* $('#enable-token-threshold').on('change', ...)
OnEnableTokenThresholdChange(checked) ==
    /\ settings' = [settings EXCEPT !.enableMinTokenRetry = checked]
    /\ extension_settings' = saveSettings(settings')
    /\ UNCHANGED <<rev, env, req, syncTimer, probe, window, originalFetch>>

\* showNotification(...) in a handler of the panel: toastr, when there is one
PanelToast(type) == IF env.toastr THEN [window EXCEPT !.panelToast = type] ELSE window

\* $('#retry-enabled').on('change', ...), part_001:475-479
OnRetryEnabledChange(checked) ==
    /\ settings' = [settings EXCEPT !.enabled = checked]
    /\ extension_settings' = saveSettings(settings')
    /\ window' = PanelToast("info")
    /\ UNCHANGED <<rev, env, req, syncTimer, probe, originalFetch>>

\* $('#add-intercept-rule').on('click', ...), part_001:558-567; val is the trimmed
\* text of the input, and an empty one returns at once
OnAddInterceptRule(val) ==
    /\ val # <<>>
    /\ LET items == IF settings.interceptRules.isArray THEN settings.interceptRules.items
                    ELSE <<>>
       IN  /\ Len(items) < MaxRules
           /\ settings' = [settings EXCEPT !.interceptRules = Rules(Append(items, val))]
    /\ extension_settings' = saveSettings(settings')
    /\ window' = PanelToast("success")
    /\ UNCHANGED <<rev, env, req, syncTimer, probe, originalFetch>>

\* click on .delete-rule of the list item idx, part_001:570-577
OnDeleteRule(idx) ==
    /\ settings.interceptRules.isArray
    /\ idx \in 1..Len(settings.interceptRules.items)
    /\ LET items == settings.interceptRules.items IN
       settings' = [settings EXCEPT !.interceptRules =
                       Rules(SubSeq(items, 1, idx - 1) \o SubSeq(items, idx + 1, Len(items)))]
    /\ extension_settings' = saveSettings(settings')
    /\ UNCHANGED <<rev, env, req, syncTimer, probe, window, originalFetch>>

\* setTimeout(() => { loadSettings(); applySettingsToUI(); }, 500)
DeferredLoadSettings ==
    /\ syncTimer
    /\ syncTimer' = FALSE
    /\ settings' = loadSettings(extension_settings)
    /\ UNCHANGED <<rev, env, req, extension_settings, probe, window, originalFetch>>

Next ==
    \E c \in Calls :
        \/ \E url \in Urls, sig \in {"none", "clear", "aborted"} : Invoke(c, url, sig)
        \/ \E resp \in Responses : PassSettles(c, resp, NoError)
        \/ \E err \in TransportErrors : PassSettles(c, NoResponse, err)
        \/ \E err \in TransportErrors : FetchFails(c, err)
        \/ \E resp \in Responses : FetchReturns(c, resp)
        \/ ErrTextSettles(c)
        \/ TextSettles(c)
        \/ \E tokens \in TokenCounts : TokensSettle(c, tokens)
        \/ TokensFail(c)
        \/ DelayFires(c)
        \/ Abort(c)

Spec == Init /\ [][Next]_vars

\* the cancellation-aware revision with its settings panel open: the user moves
\* the controls, and the deferred loadSettings may find values the host stored
\* after init() read them
BaseDelays == {500, 1000}

PanelPersisted ==
    {p \in PersistedSettings : p.enabled /\ p.interceptRules = Rules(<<RuleChat>>)}

InitEdit ==
    /\ rev = "part001"
    /\ \E p \in PanelPersisted : settings = Merge(DEFAULT_SETTINGS, p)
    /\ extension_settings \in PanelPersisted
    /\ syncTimer = TRUE
    /\ probe = NoProbe
    /\ env = [toastr |-> TRUE, popup |-> TRUE, tokenizer |-> FALSE, toastrThrows |-> FALSE,
              popupThrows |-> FALSE]
    /\ req = [c \in Calls |-> IdleReq]
    /\ Installed

\* the server answers every call with a readable success response and the caller
\* passes no signal
NextEdit ==
    \/ \E c \in Calls :
          \/ Invoke(c, UrlChat, "none")
          \/ \E resp \in {x \in OkResponses : x.readable} : FetchReturns(c, resp)
          \/ TextSettles(c)
          \/ DelayFires(c)
    \/ \E v \in 1..MaxRetriesBound : OnRetryCountInput(v)
    \/ \E v \in BaseDelays : OnBaseDelayInput(v)
    \/ \E b \in BOOLEAN : OnCheckWhitespaceChange(b)
    \/ \E b \in BOOLEAN : OnEnableTokenThresholdChange(b)
    \/ DeferredLoadSettings

SpecEdit == InitEdit /\ [][NextEdit]_vars

\* ------------------------------------------------- the rule matcher on its own
RulePath == <<"/", "h", "a", "/">>                 \* "/ha/", written like a path
RuleBad == <<"/", "(", "/">>                       \* /(/: not a regular expression
RuleEmpty == <<>>                                  \* ""
RuleSlash == <<"/">>                               \* "/", too short for /.../
RuleUpper == <<"H", "A">>                          \* substring rule "HA"
MatcherRules == {RuleChat, RuleRegex, RulePath, RuleBad, RuleEmpty, RuleSlash, RuleUpper}

MatcherRuleLists ==
    {NotAnArray} \cup {Rules(l) : l \in UNION {[1..n -> MatcherRules] : n \in 0..MaxRules}}

MatcherUrls ==
    { <<"/", "C", "h", "a", "t">>, <<"/", "h", "a", "/", "t">>, <<"/", "H", "A", "/">>,
      <<"o", "(", "a">>, <<"c", "o">> }

\* loadSettings() has merged some stored rule list over the defaults
InitMatcher ==
    /\ rev \in {"index", "part001"}
    /\ \E l \in MatcherRuleLists :
          /\ extension_settings = [interceptRules |-> l]
          /\ settings = loadSettings(extension_settings)
    /\ env = [toastr |-> TRUE, popup |-> TRUE, tokenizer |-> FALSE, toastrThrows |-> FALSE,
              popupThrows |-> FALSE]
    /\ req = [c \in Calls |-> IdleReq]
    /\ Installed
    /\ syncTimer = FALSE
    /\ probe = NoProbe

\* shouldIntercept(u) is called with a string
ApplyShouldIntercept(url) ==
    /\ probe' = [fn |-> "shouldIntercept", arg |-> url,
                 result |-> shouldIntercept(url, settings, cancelAware)]
    /\ UNCHANGED <<rev, settings, env, req, extension_settings, syncTimer, window, originalFetch>>

NextMatcher == \E url \in MatcherUrls : ApplyShouldIntercept(url)

SpecMatcher == InitMatcher /\ [][NextMatcher]_vars

\* ------------------------------------------- the content classifier on its own
BodyChars == {"a", " ", "\n"}
BodyTexts == UNION {[1..n -> BodyChars] : n \in 0..MaxBodyLen}

\* loadSettings() has merged some stored minContentLength and checkWhitespace
InitClassifier ==
    /\ rev \in {"index", "part001"}
    /\ \E m \in 0..MaxBodyLen, w \in BOOLEAN :
          /\ extension_settings = [minContentLength |-> m, checkWhitespace |-> w]
          /\ settings = loadSettings(extension_settings)
    /\ env = [toastr |-> TRUE, popup |-> TRUE, tokenizer |-> FALSE, toastrThrows |-> FALSE,
              popupThrows |-> FALSE]
    /\ req = [c \in Calls |-> IdleReq]
    /\ Installed
    /\ syncTimer = FALSE
    /\ probe = NoProbe

\* isEmptyContent(text) is called with the text of a body
ApplyIsEmptyContent(text) ==
    /\ probe' = [fn |-> "isEmptyContent", arg |-> text,
                 result |-> isEmptyContent(text, settings)]
    /\ UNCHANGED <<rev, settings, env, req, extension_settings, syncTimer, window, originalFetch>>

NextClassifier == \E text \in BodyTexts : ApplyIsEmptyContent(text)

SpecClassifier == InitClassifier /\ [][NextClassifier]_vars

\* ------------------------------------------------ two invocations in flight
\* the cancellation-aware revision, one retry allowed, and two callers that each
\* pass their own signal or none; the server answers with an empty or a valid
\* body or the connection fails
TwoCalls == {1, 2}

InitTwo ==
    /\ rev = "part001"
    /\ extension_settings =
          [enabled |-> TRUE, maxRetries |-> 1, interceptRules |-> Rules(<<RuleChat>>),
           enableMinTokenRetry |-> FALSE, minTokenThreshold |-> 2]
    /\ settings = loadSettings(extension_settings)
    /\ env = [toastr |-> TRUE, popup |-> TRUE, tokenizer |-> FALSE, toastrThrows |-> FALSE,
              popupThrows |-> FALSE]
    /\ req = [c \in TwoCalls |-> IdleReq]
    /\ Installed
    /\ syncTimer = FALSE
    /\ probe = NoProbe

NextTwo ==
    \E c \in TwoCalls :
        \/ \E sig \in {"none", "clear"} : Invoke(c, UrlChat, sig)
        \/ \E resp \in {x \in OkResponses : x.readable /\ x.body \in {BodyEmpty, BodyValid}} :
              FetchReturns(c, resp)
        \/ \E err \in {e \in TransportErrors : e.message = MsgFailedToFetch /\ e.name = "TypeError"} :
              FetchFails(c, err)
        \/ TextSettles(c)
        \/ DelayFires(c)
        \/ Abort(c)

SpecTwo == InitTwo /\ [][NextTwo]_vars

\* the same program in a host whose toastr may throw
InitNotify == Loaded
SpecNotify == InitNotify /\ [][Next]_vars

\* ================================================================== claims
Last(s) == s[Len(s)]
AllEmpty(h) == \A i \in 1..Len(h) : h[i] = "empty"
ErrorUi(r) == r.popups + r.toasts.error + r.consoleErrors
Delivered(k) == IF env.toastr THEN k ELSE 0

\* C1: an intercepted call that is never cancelled and whose every underlying call
\* came back with a success status and a body judged empty ends only after exactly
\* maxRetries + 1 underlying calls, and ends by throwing the exhausted-retries error
\* (whose message counts maxRetries + 1 attempts); until then it has not ended.
C1_AllEmptyExhausts ==
    \A c \in Calls :
        LET r == req[c] IN
        (r.intercepted /\ r.signal # "aborted" /\ AllEmpty(r.hist) /\ Terminal(r))
            => /\ r.pc = "thrown"
               /\ r.thrown.kind = "exhausted"
               /\ r.thrown.attempts = settings.maxRetries + 1
               /\ r.nCalls = settings.maxRetries + 1
               /\ Len(r.hist) = settings.maxRetries + 1

C1_Witness ==
    \E c \in Calls :
        LET r == req[c] IN
        /\ r.intercepted /\ r.signal # "aborted" /\ AllEmpty(r.hist)
        /\ r.pc = "thrown" /\ r.thrown.kind = "exhausted"
        /\ settings.maxRetries >= 2 /\ r.nCalls = settings.maxRetries + 1

\* C2: whatever the attempts' outcomes, one invocation of enhancedFetch never makes
\* more than maxRetries + 1 underlying calls.
C2_AtMostMaxRetriesPlusOneCalls ==
    \A c \in Calls : req[c].nCalls <= settings.maxRetries + 1

C2_Witness ==
    \E c \in Calls :
        LET r == req[c] IN
        /\ r.intercepted /\ Terminal(r) /\ settings.maxRetries >= 2
        /\ r.nCalls = settings.maxRetries + 1
        /\ \E i, j, k \in 1..Len(r.hist) :
              r.hist[i] = "empty" /\ r.hist[j] = "http" /\ r.hist[k] = "transport"

\* C3 (part_001): when the signal is aborted while the call waits in the delay after
\* an attempt, the wait ends in that very step (timer cleared, listener removed), the
\* call has thrown the AbortError, and no underlying call is added then or later.
C3_AbortDuringDelay ==
    [][\A c \in Calls :
         LET r == req[c]
             q == req'[c]
         IN  /\ (cancelAware /\ r.pc = "delay" /\ r.signal = "clear" /\ q.signal = "aborted")
                   => /\ q.pc = "thrown"
                      /\ q.thrown.kind = "abort" /\ q.thrown.name = "AbortError"
                      /\ q.nCalls = r.nCalls
                      /\ ~q.timer /\ ~q.listener
             /\ Terminal(r)
                   => /\ q.pc = r.pc /\ q.thrown = r.thrown /\ q.returned = r.returned
                      /\ q.nCalls = r.nCalls]_vars

\* aborted in the wait that followed a failed attempt, with attempts still left
C3_Witness ==
    \E c \in Calls :
        LET r == req[c] IN
        /\ cancelAware /\ r.pc = "thrown" /\ r.thrown.kind = "abort"
        /\ r.signal = "aborted"
        /\ r.hist # <<>> /\ Last(r.hist) = "http"
        /\ r.nCalls = Len(r.hist) /\ r.nCalls <= settings.maxRetries

\* C4 as stated (part_001): no step of enhancedFetch, intercepted or not, starts an
\* underlying call while the signal is aborted.
C4_Original ==
    [][\A c \in Calls :
         (cancelAware /\ req'[c].nCalls > req[c].nCalls)
             => req'[c].signal # "aborted"]_vars

\* C4 amended (part_001): the retry loop of an intercepted call never starts an
\* underlying call while the signal is aborted, and an intercepted call entered with
\* an aborted signal makes no underlying call, shows no error popup or notification
\* and throws the AbortError in its first step.
C4_NoCallWhenAborted ==
    [][\A c \in Calls :
         LET r == req[c]
             q == req'[c]
         IN  /\ (cancelAware /\ q.intercepted /\ q.nCalls > r.nCalls)
                   => q.signal # "aborted"
             /\ (cancelAware /\ r.pc = "idle" /\ q.intercepted /\ q.signal = "aborted")
                   => /\ q.pc = "thrown"
                      /\ q.thrown.kind = "abort" /\ q.thrown.name = "AbortError"
                      /\ q.nCalls = 0
                      /\ ErrorUi(q) = 0 /\ q.toasts.info = 0]_vars

C4_Witness ==
    \E c \in Calls :
        LET r == req[c] IN
        /\ cancelAware /\ r.intercepted /\ r.signal = "aborted"
        /\ r.pc = "thrown" /\ r.thrown.name = "AbortError"
        /\ r.nCalls = 0 /\ r.hist = <<>>

\* C5: when attempt j > 0 of an intercepted call comes back with a success status and
\* content judged not empty, the call has returned exactly that response, one success
\* notification has been given to the notification collaborator (none when the host
\* has no toastr), and the underlying calls number j + 1.
C5_SuccessOnRetry ==
    \A c \in Calls :
        LET r == req[c] IN
        (r.intercepted /\ Len(r.hist) > 1 /\ Last(r.hist) = "valid")
            => /\ r.pc = "returned"
               /\ r.returned = r.gotResp
               /\ r.returned.n = Len(r.hist)
               /\ r.nCalls = Len(r.hist)
               /\ r.attempt = Len(r.hist) - 1
               /\ r.toasts.success = Delivered(1)

C5_Witness ==
    \E c \in Calls :
        LET r == req[c] IN
        /\ r.intercepted /\ Len(r.hist) = 3 /\ Last(r.hist) = "valid"
        /\ r.pc = "returned" /\ r.returned.n = 3 /\ r.toasts.success = 1

\* C6: a call made while enabled is false, or with a url no rule matches, makes one
\* underlying call and nothing else: no attempt is classified, no wait is started, no
\* notification or popup is shown, and what it returns or throws is what the
\* underlying call resolved or rejected with, whatever the status and body.
C6_PassThrough ==
    \A c \in Calls :
        LET r == req[c] IN
        (r.pc # "idle" /\
            (~settings.enabled \/ ~shouldIntercept(UrlText(r.url), settings, cancelAware)))
            => /\ r.pc \in {"pass", "returned", "thrown"}
               /\ r.nCalls = 1
               /\ r.hist = <<>> /\ r.attempt = 0 /\ r.delays = 0 /\ ~r.timer
               /\ ErrorUi(r) = 0 /\ r.toasts.info = 0 /\ r.toasts.success = 0
               /\ r.pc = "returned" => (r.returned = r.gotResp /\ r.gotResp.n = 1)
               /\ r.pc = "thrown" => (r.thrown = r.gotErr /\ r.gotErr.kind = "transport")

\* a disabled plugin hands back a non-success response with a matching url
C6_Witness ==
    \E c \in Calls :
        LET r == req[c] IN
        /\ r.pc = "returned" /\ ~r.returned.ok
        /\ ~settings.enabled
        /\ shouldIntercept(UrlText(r.url), settings, cancelAware)

\* C7 (part_001): no step shows an error popup or error notification while the signal
\* is aborted, and a call that has thrown an AbortError has shown none at all.
C7_AbortIsSilent ==
    [][\A c \in Calls :
         LET r == req[c]
             q == req'[c]
         IN  /\ (cancelAware /\ ErrorUi(q) > ErrorUi(r)) => q.signal # "aborted"
             /\ (cancelAware /\ q.pc = "thrown" /\ q.thrown.name = "AbortError")
                   => ErrorUi(q) = 0]_vars

\* cancelled during the last attempt, whose response then came back empty
C7_Witness ==
    \E c \in Calls :
        LET r == req[c] IN
        /\ cancelAware /\ r.intercepted /\ r.signal = "aborted"
        /\ r.pc = "thrown" /\ r.hist # <<>> /\ Last(r.hist) = "empty"
        /\ r.attempt = settings.maxRetries
        /\ ErrorUi(r) = 0

\* C8 as stated: when the last attempt (index maxRetries) of an intercepted call came
\* back empty and the signal is not aborted, the terminal error UI has been shown
\* exactly once and the call has thrown the exhausted-retries error, whose message
\* counts maxRetries + 1 attempts.
C8_TerminalErrorOnce ==
    \A c \in Calls :
        LET r == req[c] IN
        (r.intercepted /\ Terminal(r) /\ r.signal # "aborted"
            /\ Len(r.hist) = settings.maxRetries + 1 /\ Last(r.hist) = "empty")
            => /\ r.pc = "thrown"
               /\ r.thrown.kind = "exhausted"
               /\ r.thrown.attempts = settings.maxRetries + 1
               /\ ErrorUi(r) = 1

\* the failure is an abort in the sense of isAbortError, read off the errors the
\* underlying call can fail with
AbortLike(e) == e.name = "AbortError" \/ e.message \in {MsgConnAbort, MsgCanceled}

TransportStep(r, q) ==
    cancelAware /\ r.pc = "fetch" /\ Len(q.hist) = Len(r.hist) + 1 /\ Last(q.hist) = "transport"

C10_HttpErrorCarriesBody ==
    \A c \in Calls :
        LET r == req[c]
            e == r.lastError
        IN  (r.intercepted /\ e.kind = "http" /\ r.response.n = e.n)
               => /\ Includes(e.message, <<r.response.status>>)
                  /\ Includes(e.message, r.response.statusText)
                  /\ r.response.readable
                        => (e.hasBody /\ e.body = r.response.body
                              /\ Includes(e.message, r.response.body))

\* the step in which reading the clone of a success-status response fails
ReadFailureStep(r, q) == r.pc = "text" /\ ~r.response.readable /\ q.pc # "text"

\* C11: when an attempt came back with a success status but reading the duplicated
\* body fails, that step ends the call by returning that attempt's own response:
\* the attempt is not classified, no wait is started, no further underlying call is
\* made, no notification or error UI is emitted and nothing is thrown, at whatever
\* attempt index this happens.
C11_UnreadableReturnsAtOnce ==
    [][\A c \in Calls :
         LET r == req[c]
             q == req'[c]
         IN  ReadFailureStep(r, q)
                => /\ q.pc = "returned" /\ q.returned = r.gotResp
                   /\ q.returned.n = r.nCalls
                   /\ q.thrown = NoError /\ q.lastError = r.lastError
                   /\ q.nCalls = r.nCalls /\ q.attempt = r.attempt
                   /\ ~q.timer /\ q.delays = r.delays
                   /\ q.toasts = r.toasts /\ ErrorUi(q) = ErrorUi(r)
                   /\ q.treatAsEmpty = r.treatAsEmpty]_vars

\* the read failed on the third attempt, after two empty ones
C11_Witness ==
    \E c \in Calls :
        LET r == req[c] IN
        /\ r.pc = "returned" /\ r.intercepted /\ Len(r.hist) = 3
        /\ r.hist = <<"empty", "empty", "unreadable">>
        /\ r.attempt = 2 /\ r.returned = r.gotResp /\ r.nCalls = 3
        /\ r.toasts.success = 0 /\ ErrorUi(r) = 0

\* C12: the controller never reads the body of a response it got from the
\* underlying call: the text used for classification and for the HTTP-error
\* diagnostics is read from a clone, so in every reachable state the response the
\* controller holds, and the one it returned, has its own body unconsumed.
C12_ReturnedBodyUnconsumed ==
    \A c \in Calls :
        LET r == req[c] IN
        /\ ~r.response.bodyUsed
        /\ ~r.gotResp.bodyUsed
        /\ r.pc = "returned" => ~r.returned.bodyUsed
        /\ r.intercepted =>
              r.clonesRead = Len(SelectSeq(r.hist, LAMBDA h : h # "transport"))
                               + (IF r.pc \in {"text", "errText", "tokens"} THEN 1 ELSE 0)

\* a judged-valid response was returned on a retry after its clone had been read
C12_Witness ==
    \E c \in Calls :
        LET r == req[c] IN
        /\ r.pc = "returned" /\ r.intercepted /\ Last(r.hist) = "valid"
        /\ r.clonesRead = 2 /\ r.returned = r.response /\ ~r.returned.bodyUsed
        /\ r.returned.readable

\* C13 as stated: a failure thrown by the notification collaborator never changes
\* the outcome of a call: it is never what the call rejects with, an attempt judged
\* valid ends the call with that attempt's response, and no underlying call follows
\* a valid attempt.
C13_NotificationFailureHarmless ==
    \A c \in Calls :
        LET r == req[c] IN
        /\ r.thrown.kind # "toastr"
        /\ r.lastError.kind # "toastr"
        /\ \A i \in 1..Len(r.hist) :
              r.hist[i] = "valid"
                 => /\ i = Len(r.hist)
                    /\ r.pc = "returned" /\ r.returned = r.gotResp
                    /\ r.nCalls = i

\* the classification of a readable success body under configuration cfg when the
\* host has no tokenizer
ExpectedEmpty(body, cfg) ==
    \/ isEmptyContent(body, cfg)
    \/ cfg.enableMinTokenRetry /\ RatioEstimate(Candidate(body)) < cfg.minTokenThreshold

RuleItems == settings.interceptRules.items
RuleSet == {RuleItems[i] : i \in 1..Len(RuleItems)}
Probed(fn) == probe.fn = fn

PatternOf(rule) == SubSeq(rule, 2, Len(rule) - 1)
HasPatternForm(rule) == Len(rule) >= 2 /\ rule[1] = "/" /\ rule[Len(rule)] = "/"
SameIgnoringCase(a, b) ==
    Len(a) = Len(b) /\ \A i \in 1..Len(a) : ToLowerChar(a[i]) = ToLowerChar(b[i])
ContainsIgnoringCase(url, t) ==
    \E i \in 0..(Len(url) - Len(t)) : SameIgnoringCase(SubSeq(url, i + 1, i + Len(t)), t)
RuleMatchesAsStated(url, rule) ==
    IF HasPatternForm(rule)
    THEN RegExpValid(PatternOf(rule)) /\ RegExpTest(PatternOf(rule), url)
    ELSE ContainsIgnoringCase(url, rule)

\* C16 as stated: in part_001, for a non-empty rule list, shouldIntercept answers
\* true exactly when some rule of the list matches, a /pattern/ rule matching as a
\* regular expression and every other string rule matching when the url contains
\* its text, case ignored.
C16_Original ==
    (cancelAware /\ Probed("shouldIntercept") /\ settings.interceptRules.isArray
        /\ RuleItems # <<>>)
       => (probe.result <=> \E rule \in RuleSet : RuleMatchesAsStated(probe.arg, rule))

\* C16: in part_001, for a non-empty rule list, shouldIntercept answers true
\* exactly when some rule of the list matches: a /pattern/ rule (first and last
\* character "/", length at least 2) matches when pattern, as a regular expression,
\* matches the url; every other rule that is not the empty string matches when the
\* url contains its text, case ignored; the empty string matches no url.  The answer
\* depends on the set of rules only, not on their order.
C16_RuleSemantics ==
    (cancelAware /\ Probed("shouldIntercept") /\ settings.interceptRules.isArray
        /\ RuleItems # <<>>)
       => (probe.result <=>
             \E rule \in RuleSet : rule # <<>> /\ RuleMatchesAsStated(probe.arg, rule))

\* only the second rule of the list, "HA", matches the url "/ha/t"
C16_Witness ==
    /\ cancelAware /\ Probed("shouldIntercept")
    /\ settings.interceptRules = Rules(<<RuleBad, RuleUpper>>)
    /\ probe.arg = <<"/", "h", "a", "/", "t">> /\ probe.result = TRUE

\* C17 as stated: the rule "/ha/" (standing for "/foo/bar/") acts as a substring
\* rule: a url is intercepted exactly when it contains "/ha/", case ignored.
C17_Original ==
    (Probed("shouldIntercept") /\ settings.interceptRules = Rules(<<RulePath>>))
        => (probe.result <=> ContainsIgnoringCase(probe.arg, RulePath))

\* C17: a rule written like a path with a slash at both ends, "/ha/" (standing for
\* "/foo/bar/"), has the /pattern/ form and acts as the regular expression ha: a
\* url is intercepted exactly when it contains "ha" in that letter case, with or
\* without the slashes around it.
C17_SlashWrappedRuleIsRegex ==
    (Probed("shouldIntercept") /\ settings.interceptRules = Rules(<<RulePath>>))
        => (probe.result <=>
              \E i \in 1..(Len(probe.arg) - 1) : probe.arg[i] = "h" /\ probe.arg[i + 1] = "a")

\* "/Chat" holds "ha" but not "/ha/", and is intercepted
C17_Witness ==
    /\ Probed("shouldIntercept") /\ settings.interceptRules = Rules(<<RulePath>>)
    /\ probe.arg = <<"/", "C", "h", "a", "t">> /\ probe.result = TRUE

\* C19: a /pattern/ rule whose pattern is not a valid regular expression matches
\* no url and raises nothing: shouldIntercept still answers, and its answer is the
\* one the other rules of the list give.
C19_InvalidRegexMatchesNothing ==
    (Probed("shouldIntercept") /\ settings.interceptRules.isArray /\ RuleBad \in RuleSet)
        => /\ probe.result \in BOOLEAN
           /\ probe.result <=>
                 \E rule \in RuleSet \ {RuleBad} : matchesRule(probe.arg, rule, cancelAware)

\* the invalid rule alone, asked about a url that holds "("
C19_Witness ==
    /\ Probed("shouldIntercept") /\ settings.interceptRules = Rules(<<RuleBad>>)
    /\ probe.arg = <<"o", "(", "a">> /\ probe.result = FALSE

\* C18 as stated: a call whose url argument is not a string is never intercepted:
\* whatever the rules, it makes its one underlying call and nothing else.
C18_Original ==
    \A c \in Calls :
        LET r == req[c] IN
        (r.pc # "idle" /\ ~r.url.isString) => (~r.intercepted /\ r.nCalls <= 1)

\* C18: for a url argument that is not a string the rules are applied to its .url
\* property when it has a non-empty one and to String(url) otherwise: the call is
\* intercepted exactly when the plugin is enabled, that text can be computed and
\* some rule matches it; in every other case the call is delegated once, with no
\* retry wrapping.
C18_NonStringUrlByItsText ==
    \A c \in Calls :
        LET r == req[c]
            u == IF r.url.urlProp # <<>> THEN r.url.urlProp ELSE r.url.text
            computable == r.url.urlProp # <<>> \/ ~r.url.throws
        IN  (r.pc # "idle" /\ ~r.url.isString)
               => /\ r.intercepted <=>
                        (settings.enabled /\ computable
                           /\ shouldIntercept(u, settings, cancelAware))
                  /\ ~r.intercepted
                        => /\ r.nCalls = 1 /\ r.hist = <<>> /\ r.delays = 0
                           /\ r.toasts = IdleReq.toasts /\ ErrorUi(r) = 0

\* null was passed as url under a non-empty rule list, and the call was delegated
C18_Witness ==
    \E c \in Calls :
        LET r == req[c] IN
        /\ r.url = UrlNull /\ settings.enabled /\ settings.interceptRules = Rules(<<RuleChat>>)
        /\ r.pc = "returned" /\ ~r.intercepted /\ r.nCalls = 1 /\ r.returned = r.gotResp

\* positions of the characters of b that are not whitespace, and the length of b
\* without its leading and trailing whitespace
Inked(b) == {i \in 1..Len(b) : ~IsWhitespace(b[i])}
Min(S) == CHOOSE x \in S : \A y \in S : x <= y
Max(S) == CHOOSE x \in S : \A y \in S : x >= y
TrimmedLength(b) == IF Inked(b) = {} THEN 0 ELSE Max(Inked(b)) - Min(Inked(b)) + 1

\* C20: for every body text b and every minContentLength >= 0, isEmptyContent(b)
\* is true exactly when b is absent (of zero length), or the trimmed length of b is
\* below minContentLength, or checkWhitespace is set and nothing is left of b once
\* all whitespace is removed; so a whitespace-only body is empty whenever
\* checkWhitespace is set, whatever its length, and with minContentLength = 0 and
\* checkWhitespace unset every body that is present is not empty.
C20_EmptyContentCharacterised ==
    Probed("isEmptyContent") =>
        LET b == probe.arg IN
        /\ probe.result <=>
              \/ b = <<>>
              \/ TrimmedLength(b) < settings.minContentLength
              \/ settings.checkWhitespace /\ Inked(b) = {}
        /\ (settings.checkWhitespace /\ b # <<>> /\ Inked(b) = {}) => probe.result
        /\ (settings.minContentLength = 0 /\ ~settings.checkWhitespace /\ b # <<>>)
              => ~probe.result

\* a body of four whitespace characters, longer than minContentLength = 0, is empty
\* because checkWhitespace is set
C20_Witness ==
    /\ Probed("isEmptyContent") /\ settings.checkWhitespace /\ settings.minContentLength = 0
    /\ probe.arg = <<" ", "\n", " ", " ">> /\ probe.result = TRUE

\* the latest attempt got a readable success response and has been classified
Classified(r) ==
    /\ r.intercepted /\ r.hist # <<>> /\ Last(r.hist) \in {"empty", "valid"}
    /\ r.response.n = Len(r.hist)

\* C21 (part_001): the token check runs only when enableMinTokenRetry is set and
\* the length/whitespace test judged the body not empty; the attempt is then
\* treated as empty exactly when the token count of the candidate text is below
\* minTokenThreshold.  With enableMinTokenRetry unset the length/whitespace test
\* alone decides.
C21_TokenCheckGated ==
    \A c \in Calls :
        LET r == req[c]
            lengthEmpty == isEmptyContent(r.response.body, settings)
            judgedEmpty == Last(r.hist) = "empty"
        IN  /\ (cancelAware /\ r.pc = "tokens")
                  => (settings.enableMinTokenRetry /\ ~lengthEmpty)
            /\ (cancelAware /\ Classified(r))
                  => /\ r.tokenSource # "none"
                         <=> (settings.enableMinTokenRetry /\ ~lengthEmpty)
                     /\ r.tokenSource # "none"
                         => (judgedEmpty <=> r.tokens < settings.minTokenThreshold)
                     /\ r.tokenSource = "none" => (judgedEmpty <=> lengthEmpty)
                     /\ ~settings.enableMinTokenRetry => (judgedEmpty <=> lengthEmpty)

\* a body long enough for the length test was judged empty for its one token
C21_Witness ==
    \E c \in Calls :
        LET r == req[c] IN
        /\ cancelAware /\ Classified(r) /\ settings.enableMinTokenRetry
        /\ ~isEmptyContent(r.response.body, settings)
        /\ r.tokenSource = "tokenizer" /\ r.tokens = 1 /\ Last(r.hist) = "empty"

\* C22 as stated (part_001): for a response body that is not valid JSON the token
\* check is disabled: the attempt is classified by the length/whitespace test alone
\* and is never treated as empty on account of a token count.
C22_NonJsonSkipsTokenCheck ==
    \A c \in Calls :
        LET r == req[c] IN
        (cancelAware /\ Classified(r) /\ ~IsJsonDoc(r.response.body))
            => /\ r.tokenSource = "none"
               /\ Last(r.hist) = "empty" <=> isEmptyContent(r.response.body, settings)

\* h is k empty attempts followed by one valid attempt
EmptiesThenValid(h, k) ==
    /\ Len(h) = k + 1 /\ h[k + 1] = "valid"
    /\ \A i \in 1..k : h[i] = "empty"

\* C23: an intercepted call with the token check off and no cancellation whose first
\* k attempts (k <= maxRetries) came back empty and whose next attempt came back
\* valid has made exactly k + 1 underlying calls and k waits, has returned the
\* response of call k + 1, has emitted no error notification or popup, and (in
\* part_001, which has the retry toast) has emitted exactly k retry notifications.
C23_EmptiesThenValid ==
    \A c \in Calls :
        LET r == req[c] IN
        \A k \in 0..MaxRetriesBound :
            (r.intercepted /\ ~settings.enableMinTokenRetry /\ r.signal # "aborted"
               /\ EmptiesThenValid(r.hist, k))
                => /\ k <= settings.maxRetries
                   /\ r.pc = "returned"
                   /\ r.nCalls = k + 1 /\ r.delays = k
                   /\ r.returned = r.gotResp /\ r.returned.n = k + 1
                   /\ ErrorUi(r) = 0 /\ r.toasts.error = 0
                   /\ cancelAware => r.toasts.info = Delivered(k)

\* two empty attempts, two retry toasts, then the third response returned
C23_Witness ==
    \E c \in Calls :
        LET r == req[c] IN
        /\ cancelAware /\ env.toastr /\ ~settings.enableMinTokenRetry
        /\ r.intercepted /\ r.signal # "aborted" /\ EmptiesThenValid(r.hist, 2)
        /\ r.pc = "returned" /\ r.nCalls = 3 /\ r.returned.n = 3
        /\ r.toasts.info = 2 /\ ErrorUi(r) = 0

\* C24: two invocations in flight at once, interleaved at their suspension points,
\* do not affect each other: every step changes the locals, the signal and the
\* effects of one invocation only (so aborting one call's signal leaves the other
\* call where it was), and each invocation makes at most maxRetries + 1 underlying
\* calls with its own attempt counter.
C24_CallsIndependent ==
    /\ [](\A c \in DOMAIN req :
             /\ req[c].nCalls <= settings.maxRetries + 1
             /\ req[c].attempt <= settings.maxRetries + 1
             /\ req[c].pc \in {"fetch", "text", "errText", "tokens"}
                   => req[c].nCalls = req[c].attempt + 1)
    /\ [][\A c \in DOMAIN req, d \in DOMAIN req :
             (c # d /\ req'[c] # req[c]) => req'[d] = req[d]]_vars

\* call 1 was aborted during its second underlying call and ended when that call
\* failed, while call 2, still in the wait after its first attempt, keeps its
\* timer, its listener and its own last error
C24_Witness ==
    /\ DOMAIN req = TwoCalls
    /\ req[1].pc = "thrown" /\ req[1].signal = "aborted" /\ req[1].thrown = req[1].gotErr
    /\ req[1].nCalls = 2 /\ req[1].attempt = 1
    /\ req[2].pc = "delay" /\ req[2].signal = "clear" /\ req[2].timer /\ req[2].listener
    /\ req[2].nCalls = 1 /\ req[2].attempt = 0
    /\ req[2].lastError.kind = "transport" /\ req[1].lastError # req[2].lastError

\* C25 (part_001): a wait on a call that has a signal registers its abort listener
\* when it starts and removes it when it ends, by its timer or by cancellation: the
\* listener is registered exactly while the call is suspended in such a wait, so
\* never more than one per call, none once the call has terminated, and a wait
\* ended by cancellation leaves neither listener nor pending timer.
C25_ListenerLifecycle ==
    \A c \in Calls :
        LET r == req[c] IN
        cancelAware =>
          /\ r.listener <=> (r.pc = "delay" /\ r.signal # "none")
          /\ r.timer <=> r.pc = "delay"
          /\ r.listener => r.signal = "clear"
          /\ Terminal(r) => (~r.listener /\ ~r.timer)
          /\ r.signal = "aborted" => (~r.listener /\ ~r.timer)

\* a first wait ran to its timer, the second one was ended by cancellation
C25_Witness ==
    \E c \in Calls :
        LET r == req[c] IN
        /\ cancelAware /\ r.pc = "thrown" /\ r.thrown = AbortDOMException
        /\ r.signal = "aborted" /\ r.delays = 1 /\ r.nCalls = 2 /\ Len(r.hist) = 2
        /\ ~r.listener /\ ~r.timer

\* C26 (part_001): every wait between two attempts is of baseDelay, whatever the
\* attempt index and whether it follows an empty attempt (the wait in the try block)
\* or a failed one (the wait in the catch block).
C26_FixedDelay ==
    \A c \in Calls :
        LET r == req[c] IN
        (cancelAware /\ r.pc = "delay")
            => /\ r.delayMs = settings.baseDelay
               /\ r.delayIn \in {"try", "catch"}
               /\ r.attempt < settings.maxRetries

\* the second wait of a call, after a failed attempt, is as long as the first
C26_Witness ==
    \E c \in Calls :
        LET r == req[c] IN
        /\ cancelAware /\ r.pc = "delay" /\ r.delayIn = "catch" /\ r.attempt = 1
        /\ r.delays = 1 /\ r.hist = <<"empty", "transport">>
        /\ r.delayMs = settings.baseDelay

\* C27: every underlying call of one invocation, the retries and the pass-through
\* call alike, is given the url argument and the options the caller passed.
C27_SameArguments ==
    \A c \in Calls :
        LET r == req[c] IN
        /\ Len(r.sent) = r.nCalls
        /\ \A i \in 1..Len(r.sent) :
              /\ r.sent[i].url = r.url
              /\ r.sent[i].options.signal = "none" <=> r.signal = "none"

\* a Request object was sent three times as it was passed
C27_Witness ==
    \E c \in Calls :
        LET r == req[c] IN
        /\ r.intercepted /\ r.url = UrlRequest /\ r.signal # "none"
        /\ Len(r.sent) = 3 /\ Terminal(r)
        /\ \A i \in 1..3 : r.sent[i].url = UrlRequest

\* C28: showBuiltinError reports through the popup when there is one, else through
\* toastr.error, else through console.error alone; a popup that throws makes it fall
\* back to toastr.error; and what it calls never makes it raise: the step that shows
\* the error UI goes on to raise the error the loop recorded last.
C28_ErrorUiFallback ==
    [][\A c \in Calls :
          LET r == req[c]
              q == req'[c]
              dPopup == q.popups - r.popups
              dToast == q.toasts.error - r.toasts.error
              dConsole == q.consoleErrors - r.consoleErrors
              toastrWorks == env.toastr /\ ~ToastrThrows
          IN  /\ (env.popup /\ ~PopupThrows) => (dToast = 0 /\ dConsole = 0)
              /\ PopupThrows => (dPopup = 0 /\ dToast = (IF toastrWorks THEN dConsole ELSE 0))
              /\ (~env.popup /\ toastrWorks) => (dPopup = 0 /\ dConsole = 0)
              /\ (~env.popup /\ ~toastrWorks) => (dPopup = 0 /\ dToast = 0)
              /\ dPopup >= 0 /\ dToast >= 0 /\ dConsole >= 0
              /\ (dPopup + dToast + dConsole > 0)
                    => (q.pc = "thrown" /\ q.thrown = q.lastError)]_vars

\* a popup that threw: the error went to toastr.error, and the sequence's own error
\* was raised
C28_Witness ==
    \E c \in Calls :
        LET r == req[c] IN
        /\ PopupThrows /\ env.toastr /\ ~ToastrThrows
        /\ r.pc = "thrown" /\ r.thrown.kind = "transport"
        /\ r.popups = 0 /\ r.toasts.error > 0 /\ r.consoleErrors = r.toasts.error

\* n is the least integer not below len / 3.35
IsCeilOfRatio(n, len) == 335 * n >= 100 * len /\ 335 * (n - 1) < 100 * len

\* C29 (part_001): when the host's tokenizer is absent, or when its call fails, the
\* token count is ceil(length / 3.35) of the candidate text; the failure is not
\* raised and the attempt is classified by that count, as empty or as valid, never
\* as a failed attempt.
C29_RatioEstimate ==
    [][\A c \in Calls :
          LET r == req[c]
              q == req'[c]
              classifiedByCount ==
                  q.hist = Append(r.hist, IF q.tokens < settings.minTokenThreshold
                                          THEN "empty" ELSE "valid")
              noFailure ==
                  /\ q.gotErr = r.gotErr
                  /\ q.pc = "thrown"
                        => q.thrown \in {ExhaustedError(settings.maxRetries + 1),
                                         AbortDOMException}
          IN  /\ (r.pc = "tokens" /\ q.pc # "tokens")
                    => /\ q.tokenSource \in {"tokenizer", "ratio"}
                       /\ q.tokenSource = "ratio" => IsCeilOfRatio(q.tokens, Len(r.candidate))
                       /\ classifiedByCount /\ noFailure
              /\ (/\ r.pc = "text" /\ q.pc # "text" /\ cancelAware /\ ~env.tokenizer
                  /\ settings.enableMinTokenRetry /\ r.response.readable
                  /\ ~isEmptyContent(r.response.body, settings))
                    => /\ q.tokenSource = "ratio"
                       /\ IsCeilOfRatio(q.tokens, Len(q.candidate))
                       /\ classifiedByCount /\ noFailure]_vars

\* the tokenizer was there and failed: five characters counted as two tokens, the
\* attempt was valid and its response was returned
C29_Witness ==
    \E c \in Calls :
        LET r == req[c] IN
        /\ cancelAware /\ env.tokenizer /\ r.tokenSource = "ratio"
        /\ Len(r.candidate) = 5 /\ r.tokens = 2
        /\ r.pc = "returned" /\ Last(r.hist) = "valid" /\ r.gotErr = NoError

\* every attempt so far failed, by a non-success status or by a transport failure
AllFailed(h) == h # <<>> /\ \A i \in 1..Len(h) : h[i] \in {"http", "transport"}

\* the error reads as an abort: its name is AbortError, or its message holds abort,
\* canceled or cancelled in any letter case
ReadsAsAbort(e) ==
    \/ e.name = "AbortError"
    \/ \E w \in {<<"a", "b", "o", "r", "t">>, <<"c", "a", "n", "c", "e", "l", "e", "d">>,
                 <<"c", "a", "n", "c", "e", "l", "l", "e", "d">>} :
          Includes(ToLowerCase(e.message), w)

\* the call made maxRetries + 1 underlying calls, raised the error of the last of
\* them and showed the error UI once, for that error
FailedAfterAllAttempts(r) ==
    /\ r.pc = "thrown"
    /\ r.nCalls = settings.maxRetries + 1
    /\ r.thrown.kind \in {"http", "transport"} /\ r.thrown.n = r.nCalls
    /\ ErrorUi(r) = 1 /\ r.shown = <<r.thrown>>

C31_AbortedRaisesAbortError ==
    [][\A c \in Calls :
          LET r == req[c]
              q == req'[c]
          IN  (cancelAware /\ q.intercepted /\ ~Terminal(r)
                 /\ q.pc = "thrown" /\ q.signal = "aborted")
                 => q.thrown.name = "AbortError"]_vars

\* the positions of the underlying calls in the event log
CallsAt(ev) == {i \in 1..Len(ev) : ev[i] = "call"}

\* what lies between two consecutive underlying calls: the retry notification (when
\* there is a toastr to deliver it), then one wait from its start to its timer
BetweenCalls == (IF env.toastr THEN <<"notify">> ELSE <<>>) \o <<"waitStart", "waitEnd">>

\* C32 (part_001): between any two consecutive underlying calls of one retry sequence
\* there is exactly one retry notification and then exactly one completed wait, in
\* that order; and the final attempt (index maxRetries, the call number
\* maxRetries + 1) is followed by no retry notification and no wait.
C32_NotifyThenWait ==
    \A c \in Calls :
        LET r == req[c]
            ev == r.events
            P == CallsAt(ev)
        IN  (cancelAware /\ r.intercepted)
               => /\ \A i, j \in P :
                        (i < j /\ ~\E k \in P : i < k /\ k < j)
                           => SubSeq(ev, i + 1, j - 1) = BetweenCalls
                  /\ Cardinality(P) = r.nCalls
                  /\ Cardinality(P) <= settings.maxRetries + 1
                  /\ Cardinality(P) = settings.maxRetries + 1 => Last(ev) = "call"

\* three underlying calls, each pair with its notification and its wait between
\* them, and nothing after the third
C32_Witness ==
    \E c \in Calls :
        LET r == req[c] IN
        /\ cancelAware /\ r.intercepted /\ Terminal(r) /\ settings.maxRetries = 2
        /\ r.events = <<"call", "notify", "waitStart", "waitEnd",
                        "call", "notify", "waitStart", "waitEnd", "call">>

\* C33: an intercepted call whose first attempt came back with a success status and
\* content judged valid has returned that attempt's response after one underlying
\* call, with no success, retry or error notification and no wait.
C33_FirstAttemptValidIsSilent ==
    \A c \in Calls :
        LET r == req[c] IN
        (r.intercepted /\ r.hist # <<>> /\ r.hist[1] = "valid")
            => /\ r.pc = "returned" /\ r.hist = <<"valid">>
               /\ r.returned = r.gotResp /\ r.returned.n = 1 /\ r.returned.ok
               /\ r.nCalls = 1 /\ r.delays = 0 /\ r.events = <<"call">>
               /\ r.toasts = [error |-> 0, info |-> 0, success |-> 0]
               /\ ErrorUi(r) = 0 /\ r.shown = <<>>

\* with a toastr and a popup at hand, the first response was returned in silence
C33_Witness ==
    \E c \in Calls :
        LET r == req[c] IN
        /\ env.toastr /\ env.popup /\ r.intercepted /\ r.pc = "returned"
        /\ r.hist = <<"valid">> /\ r.returned.body = BodyValid /\ r.nCalls = 1
        /\ r.toasts.success = 0 /\ r.toasts.info = 0 /\ ErrorUi(r) = 0

\* ------------------------------------------ the script is loaded, more than once
\* a page before any copy of the script has run; settings is still the copy of
\* DEFAULT_SETTINGS the closure starts with
InitInstall ==
    /\ rev \in {"index", "part001"}
    /\ extension_settings \in PersistedSettings
    /\ rev = "index" => ~extension_settings.enableMinTokenRetry
    /\ settings = DEFAULT_SETTINGS
    /\ env = [toastr |-> TRUE, popup |-> TRUE, tokenizer |-> FALSE, toastrThrows |-> FALSE,
              popupThrows |-> FALSE]
    /\ syncTimer = FALSE
    /\ probe = NoProbe
    /\ req = [c \in Calls |-> IdleReq]
    /\ Pristine

\* copy i of the script runs its entry point, part_001:687-731: initializePlugin()
\* with a closure of its own (originalFetch null), init() calling loadSettings()
LoadScript(i) ==
    /\ ~window.unloaded
    /\ \A k \in 1..Len(window.listeners) : window.listeners[k] # i
    /\ \A j \in Instances : j < i => \E k \in 1..Len(window.listeners) : window.listeners[k] = j
    /\ LET st == initializePlugin([window |-> window, originalFetch |-> originalFetch], i) IN
          /\ window' = st.window
          /\ originalFetch' = st.originalFetch
    /\ settings' = loadSettings(extension_settings)
    /\ UNCHANGED <<rev, env, req, extension_settings, syncTimer, probe>>

\* the page is left: every cleanup registered for beforeunload runs
BeforeUnload ==
    /\ ~window.unloaded
    /\ window.listeners # <<>>
    /\ LET st == RunCleanups([window |-> window, originalFetch |-> originalFetch],
                             window.listeners) IN
          /\ window' = [st.window EXCEPT !.unloaded = TRUE]
          /\ originalFetch' = st.originalFetch
    /\ UNCHANGED <<rev, settings, env, req, extension_settings, syncTimer, probe>>

NextInstall ==
    \/ \E i \in Instances : LoadScript(i)
    \/ BeforeUnload

SpecInstall == InitInstall /\ [][NextInstall]_vars

\* C34 as stated: initializePlugin on a page already marked initialized, a second
\* copy of the script included, first puts the original transport back, so that the
\* originalFetch of no copy is a retry wrapper; and once the cleanups have run
\* window.fetch is the transport that was there before the first install.
C34_WrapperNeverLayered ==
    /\ [](\A i \in Instances : originalFetch[i].kind # "wrapper")
    /\ [][(~window.unloaded /\ window'.unloaded) => window'.fetch = Native]_vars

\* ------------------------------------ every pending call and every timer settles
\* what the underlying call answers here: an empty or a valid body, status 500, or a
\* TypeError
LiveResponses ==
    {x \in OkResponses : x.body \in {BodyEmpty, BodyValid}}
        \cup {x \in ErrorResponses : x.statusText = <<"E", "r", "r">>}

LiveErrors == {e \in TransportErrors : e.name = "TypeError" /\ e.message = MsgFailedToFetch}

InitLive ==
    /\ rev \in {"index", "part001"}
    /\ \E m \in 0..MaxRetriesBound, t \in BOOLEAN :
          /\ rev = "index" => ~t
          /\ extension_settings =
                [enabled |-> TRUE, maxRetries |-> m, interceptRules |-> Rules(<<RuleChat>>),
                 enableMinTokenRetry |-> t, minTokenThreshold |-> 2]
    /\ settings = Merge(DEFAULT_SETTINGS, extension_settings)
    /\ env = [toastr |-> TRUE, popup |-> TRUE, tokenizer |-> (rev = "part001"),
              toastrThrows |-> FALSE, popupThrows |-> FALSE]
    /\ req = [c \in Calls |-> IdleReq]
    /\ Installed
    /\ syncTimer = FALSE
    /\ probe = NoProbe

\* the promise of originalFetch(url, options) settles, one way or the other
UnderlyingSettles(c) ==
    \/ \E resp \in LiveResponses : PassSettles(c, resp, NoError)
    \/ \E err \in LiveErrors : PassSettles(c, NoResponse, err)
    \/ \E resp \in LiveResponses : FetchReturns(c, resp)
    \/ \E err \in LiveErrors : FetchFails(c, err)

NextLive ==
    \E c \in Calls :
        \/ \E url \in {UrlChat, UrlOther}, sig \in {"none", "clear"} : Invoke(c, url, sig)
        \/ UnderlyingSettles(c)
        \/ ErrTextSettles(c)
        \/ TextSettles(c)
        \/ \E tokens \in TokenCounts : TokensSettle(c, tokens)
        \/ TokensFail(c)
        \/ DelayFires(c)
        \/ Abort(c)

\* the settings are not edited; every underlying call settles and every timer fires
SpecLive ==
    /\ InitLive
    /\ [][NextLive]_vars
    /\ \A c \in Calls : WF_vars(UnderlyingSettles(c)) /\ WF_vars(DelayFires(c))

\* the reads of a response body and the tokenizer's call settle too
ReadsSettle ==
    \A c \in Calls :
        /\ WF_vars(TextSettles(c))
        /\ WF_vars(ErrTextSettles(c))
        /\ WF_vars(TokensFail(c) \/ \E tokens \in TokenCounts : TokensSettle(c, tokens))

\* a terminal outcome stays as it is
OutcomeIsFinal ==
    [][\A c \in Calls :
          Terminal(req[c])
             => /\ req'[c].pc = req[c].pc
                /\ req'[c].returned = req[c].returned
                /\ req'[c].thrown = req[c].thrown]_vars

\* C35 as stated: with the settings fixed, every underlying call settling and every
\* timer firing, every invocation of enhancedFetch ends: it returns a response or
\* raises, once, and does not stay in an attempt or a wait for ever.
C35_Original ==
    /\ \A c \in Calls : (req[c].pc # "idle") ~> Terminal(req[c])
    /\ OutcomeIsFinal

\* C35 amended: the same when, besides, every read of a response body
\* (clonedResponse.text(), errClone.text()) and every call of the tokenizer settles.
C35_EveryCallEnds ==
    /\ ReadsSettle => \A c \in Calls : (req[c].pc # "idle") ~> Terminal(req[c])
    /\ OutcomeIsFinal

\* a call that went through three attempts, two waits and the token counts ended
C35_Witness ==
    \E c \in Calls :
        LET r == req[c] IN
        /\ r.intercepted /\ r.pc = "thrown" /\ r.thrown.kind = "exhausted"
        /\ r.nCalls = 3 /\ r.delays = 2 /\ r.tokenSource = "tokenizer"
        /\ r.hist = <<"http", "empty", "empty">>

\* ------------------------------- the switch and the rules are edited in flight
InitRules ==
    /\ rev = "part001"
    /\ \E e \in BOOLEAN, m \in 1..MaxRetriesBound, l \in {Rules(<<>>), Rules(<<RuleChat>>)} :
          extension_settings =
             [enabled |-> e, maxRetries |-> m, interceptRules |-> l,
              enableMinTokenRetry |-> FALSE, minTokenThreshold |-> 2]
    /\ settings = Merge(DEFAULT_SETTINGS, extension_settings)
    /\ env = [toastr |-> TRUE, popup |-> TRUE, tokenizer |-> FALSE, toastrThrows |-> FALSE,
              popupThrows |-> FALSE]
    /\ req = [c \in Calls |-> IdleReq]
    /\ Installed
    /\ syncTimer = FALSE
    /\ probe = NoProbe

NextRules ==
    \/ \E c \in Calls :
          \/ \E url \in {UrlChat, UrlOther} : Invoke(c, url, "none")
          \/ \E resp \in {x \in OkResponses : x.readable /\ x.body \in {BodyEmpty, BodyValid}} :
                \/ PassSettles(c, resp, NoError)
                \/ FetchReturns(c, resp)
          \/ \E err \in LiveErrors : FetchFails(c, err)
          \/ TextSettles(c)
          \/ DelayFires(c)
    \/ \E b \in BOOLEAN : OnRetryEnabledChange(b)
    \/ \E val \in {RuleChat, RuleRegex, <<>>} : OnAddInterceptRule(val)
    \/ \E idx \in 1..MaxRules : OnDeleteRule(idx)

SpecRules == InitRules /\ [][NextRules]_vars

\* C36: whether a call is intercepted is decided on entry, from the switch and the
\* rules as they are then.  Editing the switch or the rules afterwards does not
\* change the decision, touches no call in flight, and neither stops nor shortens a
\* retry sequence: an empty or failed attempt with attempts left is still followed by
\* a wait and a further call, and a sequence of empty attempts still ends only after
\* maxRetries + 1 calls.  A call passed through on entry makes one underlying call.
C36_DecidedOnEntry ==
    /\ [](\A c \in Calls :
            LET r == req[c] IN
            r.pc # "idle"
               => /\ r.intercepted
                       <=> (r.cfgAtStart.enabled
                              /\ shouldIntercept(UrlText(r.url), r.cfgAtStart, cancelAware))
                  /\ ~r.intercepted => (r.nCalls = 1 /\ r.delays = 0 /\ r.hist = <<>>)
                  /\ (r.intercepted /\ Terminal(r) /\ r.pc = "thrown")
                        => r.nCalls = settings.maxRetries + 1)
    /\ [][\A c \in Calls :
            LET r == req[c]
                q == req'[c]
            IN  /\ r.pc # "idle" => q.intercepted = r.intercepted
                /\ (settings'.enabled # settings.enabled
                      \/ settings'.interceptRules # settings.interceptRules) => q = r
                /\ (r.intercepted /\ r.pc \in {"fetch", "text"} /\ Len(q.hist) = Len(r.hist) + 1
                      /\ Last(q.hist) \in {"empty", "transport"}
                      /\ r.attempt < settings.maxRetries)
                      => q.pc = "delay"
                /\ (r.pc = "delay" /\ q # r)
                      => (q.pc = "fetch" /\ q.nCalls = r.nCalls + 1)]_vars

\* the switch was on and a rule matched on entry; by the time the sequence ended,
\* after maxRetries + 1 calls, the switch was off and the rule list empty
C36_Witness ==
    \E c \in Calls :
        LET r == req[c] IN
        /\ r.intercepted /\ r.pc = "thrown" /\ r.thrown.kind = "exhausted"
        /\ r.cfgAtStart.enabled /\ r.cfgAtStart.interceptRules = Rules(<<RuleChat>>)
        /\ ~settings.enabled /\ settings.interceptRules = Rules(<<>>)
        /\ r.nCalls = settings.maxRetries + 1 /\ r.delays = settings.maxRetries

\* C37 as stated (part_001): once the caller's signal is aborted the call emits no
\* further notification of any kind: no retry toast, no success toast, no error UI.
C37_SilentAfterAbort ==
    [][\A c \in Calls :
          LET r == req[c]
              q == req'[c]
          IN  (cancelAware /\ r.signal = "aborted")
                 => (q.toasts = r.toasts /\ ErrorUi(q) = ErrorUi(r))]_vars

=============================================================================
